---- MODULE Spec2Model ----
(***************************************************************************)
(* Model of src/app/page.tsx: the Page component's Web Audio engine.       *)
(*   - loadAudio (fetch, arrayBuffer, new AudioContext, decodeAudioData,   *)
(*     filter chain construction) and the load effect's cleanup;          *)
(*   - the eqOn effect (setTargetAtTime on the six filters) and the chart  *)
(*     series of EQGraph;                                                  *)
(*   - togglePlay, including its suspension at `await ctx.resume()`.       *)
(*   - the audio thread's rendering, which moves each filter's gain       *)
(*     towards the target setTargetAtTime scheduled.                       *)
(* Every await is a point where other handlers may run, so each           *)
(* continuation is an action of its own.                                   *)
(***************************************************************************)
EXTENDS Integers, Sequences, FiniteSets

VARIABLES
    eqOn,             \* useState(false): false = Normal, true = Deaf EQ
    isPlaying,        \* useState(false): the state as last set
    renderedIsPlaying, \* the isPlaying of the last committed render, which the
                      \* togglePlay closure of that render captured
    mounted,          \* `let mounted = true` of the load effect
    loadPc,           \* position of loadAudio
    ctxState,         \* state of the AudioContext loadAudio creates ("none" before)
    audioContextRef,  \* audioContextRef.current
    bufferRef,        \* bufferRef.current
    filtersRef,       \* filtersRef.current: sequence of BiquadFilterNodes
    connections,      \* the audio graph: set of <<from node, to node>>
    sources,          \* every AudioBufferSourceNode created so far, by creation order
    sourceRef,        \* sourceRef.current: index into sources, NoSource for null
    inflight,         \* togglePlay invocations suspended at `await ctx.resume()`
    raised,           \* the error the last step let escape ("none" if none)
    unhandled,        \* every error that has escaped so far (the console's log)
    lastOp            \* the handler or continuation that ran last

vars == <<eqOn, isPlaying, renderedIsPlaying, mounted, loadPc, ctxState, audioContextRef, bufferRef,
          filtersRef, connections, sources, sourceRef, inflight, raised, unhandled,
          lastOp>>

----------------------------------------------------------------------------
(* Bounds *)

\* Most AudioBufferSourceNodes (created or about to be created) in a run.
MaxSources == 3

\* Resolution of a filter's actual gain: it is kept in 1/GainScale dB.
GainScale == 4

----------------------------------------------------------------------------
(* Values *)

NULL == "null"
CTX == "ctx"
BUFFER == "buffer"
NoSource == 0

Destination == <<"destination", 0>>
FilterNode(i) == <<"filter", i>>
SourceNode(k) == <<"source", k>>

\* EQGraph: the two series and the one handed to the chart.
flatData == <<0, 0, 0, 0, 0, 0>>
bassHeavyData == <<12, 10, 4, -6, -8, -12>>
labels == <<"60Hz", "150Hz", "250Hz", "1kHz", "4kHz", "15kHz">>
EQGraphData(isBassHeavy) == IF isBassHeavy THEN bassHeavyData ELSE flatData

\* loadAudio: the filter frequencies.
freqs == <<60, 150, 250, 1000, 4000, 15000>>

\* Variant of EffectGains: the last gain of the Deaf EQ curve is mistyped.
EffectGains_Mistyped(on) ==
    IF on THEN <<12, 10, 4, -6, -8, -10>> ELSE <<0, 0, 0, 0, 0, 0>>

\* Variant of EffectGains: the two branches of the conditional are exchanged.
EffectGains_Swapped(on) ==
    IF on THEN <<0, 0, 0, 0, 0, 0>> ELSE <<12, 10, 4, -6, -8, -12>>

\* eqOn effect: the gain targets.
EffectGains(on) ==
    IF on THEN <<12, 10, 4, -6, -8, -12>> ELSE <<0, 0, 0, 0, 0, 0>>

----------------------------------------------------------------------------
(* Pieces of the handlers *)

\* freqs.map(f => createBiquadFilter ...): type, frequency, Q, gain.value = 0.
\* `gain` is the AudioParam's actual value, in 1/GainScale dB; `target` is the
\* value it is heading to, in dB: with no automation scheduled, the value itself.
CreateFilters ==
    [i \in 1..Len(freqs) |->
        [id |-> FilterNode(i), type |-> "peaking", frequency |-> freqs[i],
         Q |-> 1, gain |-> 0, target |-> 0]]

\* Variant of ChainConnections: the last filter is never connected to
\* ctx.destination.
ChainConnections_NoDestination(filters) ==
    {<<filters[i].id, filters[i + 1].id>> : i \in 1..(Len(filters) - 1)}

\* filters.reduce((prev, curr) => prev.connect(curr)) and
\* filters[filters.length - 1].connect(ctx.destination).
ChainConnections(filters) ==
    {<<filters[i].id, filters[i + 1].id>> : i \in 1..(Len(filters) - 1)}
        \cup {<<filters[Len(filters)].id, Destination>>}

\* Variant of SetTargets: the gain is assigned (filter.gain.value = gains[i])
\* instead of being scheduled.
SetTargets_Instant(filters, gains) ==
    [i \in DOMAIN filters |->
        [filters[i] EXCEPT !.target = gains[i], !.gain = gains[i] * GainScale]]

\* Variant of SetTargets: the automation is scheduled on Q instead of gain.
SetTargets_OnQ(filters, gains) ==
    [i \in DOMAIN filters |-> [filters[i] EXCEPT !.Q = gains[i]]]

\* Variant of SetTargets: the new target is taken relative to the one in force.
SetTargets_Relative(filters, gains) ==
    [i \in DOMAIN filters |-> [filters[i] EXCEPT !.target = @ + gains[i]]]

\* filtersRef.current.forEach((filter, i) => filter.gain.setTargetAtTime(gains[i], now, 0.12)).
SetTargets(filters, gains) ==
    [i \in DOMAIN filters |-> [filters[i] EXCEPT !.target = gains[i]]]

\* The eqOn effect proceeds past `if (!ctx || !filtersRef.current.length) return`.
EqEffectProceeds(ctx, filters) == ctx # NULL /\ Len(filters) # 0

\* The eqOn effect as a whole, run with eqOn = on: what it leaves in filtersRef.
EqEffect(on, ctx, filters) ==
    IF EqEffectProceeds(ctx, filters)
       THEN SetTargets(filters, EffectGains(on))
       ELSE filters

\* What setTargetAtTime(target, now, 0.12) makes of an actual gain over one
\* half-life (0.12 * ln 2 s) of rendering: value(t) = target + (value(now) -
\* target) * exp(-(t - now) / 0.12), so the distance to the target is halved.
\* The remainder is dropped on the side of the target.
Approach(gain, target) ==
    LET goal == target * GainScale
        dist == gain - goal
    IN  IF dist >= 0 THEN goal + (dist \div 2) ELSE goal - ((-dist) \div 2)

\* A filter's gain has reached its target.
Settled(filter) == filter.gain = filter.target * GainScale

\* Variant of TogglePlayProceeds: only the context is tested.
TogglePlayProceeds_ContextOnly(ctx, buffer, filters) == ctx # NULL

\* togglePlay proceeds past `if (!ctx || !buffer || !filtersRef.current.length) return`.
TogglePlayProceeds(ctx, buffer, filters) ==
    ctx # NULL /\ buffer # NULL /\ Len(filters) # 0

\* try { sourceRef.current?.stop() } catch {}
StopCurrent(srcs, ref) ==
    IF ref = NoSource THEN srcs ELSE [srcs EXCEPT ![ref].stopped = TRUE]

\* Variant of NewSource: source.start() is never called.
NewSource_NotStarted(buffer) ==
    [buffer |-> buffer, loop |-> TRUE, started |-> FALSE, starts |-> 0,
     stopped |-> FALSE]

\* ctx.createBufferSource(); source.buffer = buffer; source.loop = true; source.start().
\* `starts` counts the start() calls made on the node.
NewSource(buffer) ==
    [buffer |-> buffer, loop |-> TRUE, started |-> TRUE, starts |-> 1,
     stopped |-> FALSE]

\* source.connect(filtersRef.current[0]) for the k-th source.
SourceConnection(k, filters) == <<SourceNode(k), filters[1].id>>

----------------------------------------------------------------------------
(* Initial state: after the first render and the first run of the effects.  *)
(* loadAudio() has been called and is suspended at `await fetch(...)`; the  *)
(* eqOn effect ran with audioContextRef.current = null and returned.        *)

Init ==
    /\ eqOn = FALSE
    /\ isPlaying = FALSE
    /\ renderedIsPlaying = FALSE
    /\ mounted = TRUE
    /\ loadPc = "fetch"
    /\ ctxState = "none"
    /\ audioContextRef = NULL
    /\ bufferRef = NULL
    /\ filtersRef = <<>>
    /\ connections = {}
    /\ sources = <<>>
    /\ sourceRef = NoSource
    /\ inflight = <<>>
    /\ raised = "none"
    /\ unhandled = {}
    /\ lastOp = "mount"

----------------------------------------------------------------------------
(* loadAudio *)

\* `await fetch(...)` resolves.
LoadFetchOk ==
    /\ loadPc = "fetch"
    /\ loadPc' = "arrayBuffer"
    /\ raised' = "none"
    /\ lastOp' = "loadFetchOk"
    /\ UNCHANGED renderedIsPlaying
    /\ UNCHANGED <<eqOn, isPlaying, mounted, ctxState, audioContextRef, bufferRef,
                   filtersRef, connections, sources, sourceRef, inflight, unhandled>>

\* `await fetch(...)` or `await res.arrayBuffer()` rejects: the catch logs it.
LoadFetchFail ==
    /\ loadPc \in {"fetch", "arrayBuffer"}
    /\ loadPc' = "fetchFailed"
    /\ raised' = "none"
    /\ lastOp' = "loadFetchFail"
    /\ UNCHANGED renderedIsPlaying
    /\ UNCHANGED <<eqOn, isPlaying, mounted, ctxState, audioContextRef, bufferRef,
                   filtersRef, connections, sources, sourceRef, inflight, unhandled>>

\* `await res.arrayBuffer()` resolves: new AudioContext(), then
\* `if (!mounted) return; audioContextRef.current = ctx; ctx.decodeAudioData(...)`.
\* The platform's autoplay policy decides whether the context starts running.
LoadArrayBufferOk ==
    /\ loadPc = "arrayBuffer"
    /\ \E st \in {"suspended", "running"} : ctxState' = st
    /\ IF mounted
          THEN /\ audioContextRef' = CTX
               /\ loadPc' = "decode"
          ELSE /\ audioContextRef' = audioContextRef
               /\ loadPc' = "returned"
    /\ raised' = "none"
    /\ lastOp' = "loadArrayBufferOk"
    /\ UNCHANGED renderedIsPlaying
    /\ UNCHANGED <<eqOn, isPlaying, mounted, bufferRef, filtersRef, connections,
                   sources, sourceRef, inflight, unhandled>>

\* Variant of LoadDecodeOk: the second `if (!mounted) return` is missing.
LoadDecodeOk_NoMountedCheck ==
    /\ loadPc = "decode"
    /\ bufferRef' = BUFFER
    /\ filtersRef' = CreateFilters
    /\ connections' = connections \cup ChainConnections(CreateFilters)
    /\ loadPc' = "ready"
    /\ raised' = "none"
    /\ lastOp' = "loadDecodeOk"
    /\ UNCHANGED renderedIsPlaying
    /\ UNCHANGED <<eqOn, isPlaying, mounted, ctxState, audioContextRef, sources,
                   sourceRef, inflight, unhandled>>

\* `await ctx.decodeAudioData(arrayBuffer)` resolves: `if (!mounted) return`,
\* bufferRef.current = buffer, the six filters, the chain, filtersRef.current.
LoadDecodeOk ==
    /\ loadPc = "decode"
    /\ IF mounted
          THEN /\ bufferRef' = BUFFER
               /\ filtersRef' = CreateFilters
               /\ connections' = connections \cup ChainConnections(CreateFilters)
               /\ loadPc' = "ready"
          ELSE /\ UNCHANGED <<bufferRef, filtersRef, connections>>
               /\ loadPc' = "returned"
    /\ raised' = "none"
    /\ lastOp' = "loadDecodeOk"
    /\ UNCHANGED renderedIsPlaying
    /\ UNCHANGED <<eqOn, isPlaying, mounted, ctxState, audioContextRef, sources,
                   sourceRef, inflight, unhandled>>

\* Variant of LoadDecodeFail: the chain was built and published before the
\* decode was awaited, and the catch leaves it in place.
LoadDecodeFail_KeepsChain ==
    /\ loadPc = "decode"
    /\ loadPc' = "decodeFailed"
    /\ filtersRef' = CreateFilters
    /\ connections' = connections \cup ChainConnections(CreateFilters)
    /\ raised' = "none"
    /\ lastOp' = "loadDecodeFail"
    /\ UNCHANGED renderedIsPlaying
    /\ UNCHANGED <<eqOn, isPlaying, mounted, ctxState, audioContextRef, bufferRef,
                   sources, sourceRef, inflight, unhandled>>

\* `await ctx.decodeAudioData(arrayBuffer)` rejects: the catch logs it.
LoadDecodeFail ==
    /\ loadPc = "decode"
    /\ loadPc' = "decodeFailed"
    /\ raised' = "none"
    /\ lastOp' = "loadDecodeFail"
    /\ UNCHANGED renderedIsPlaying
    /\ UNCHANGED <<eqOn, isPlaying, mounted, ctxState, audioContextRef, bufferRef,
                   filtersRef, connections, sources, sourceRef, inflight, unhandled>>

----------------------------------------------------------------------------
(* The load effect's cleanup *)

\* audioContextRef.current?.close(): a closed context's close() returns a promise
\* rejected with InvalidStateError; the cleanup neither awaits nor catches it.
CloseRaises(ctx, state) ==
    IF ctx # NULL /\ state = "closed" THEN "closeRejected" ELSE "none"

\* mounted = false; try { sourceRef.current?.stop() } catch {};
\* audioContextRef.current?.close().
Teardown ==
    /\ mounted' = FALSE
    /\ sources' = StopCurrent(sources, sourceRef)
    /\ ctxState' = IF audioContextRef = NULL THEN ctxState ELSE "closed"
    /\ raised' = CloseRaises(audioContextRef, ctxState)
    /\ unhandled' = unhandled \cup ({raised'} \ {"none"})
    /\ lastOp' = "teardown"
    /\ UNCHANGED renderedIsPlaying
    /\ UNCHANGED <<eqOn, isPlaying, loadPc, audioContextRef, bufferRef, filtersRef,
                   connections, sourceRef, inflight>>

----------------------------------------------------------------------------
(* The EQ toggle: setEqOn(v => !v), the re-render, and the eqOn effect.     *)
(* The re-render is the click's own; whether it also takes along an         *)
(* isPlaying that setIsPlaying(true) queued after an await is the           *)
(* scheduler's choice, so both outcomes are allowed.                        *)

ToggleEq ==
    /\ mounted
    /\ eqOn' = ~eqOn
    /\ filtersRef' = EqEffect(eqOn', audioContextRef, filtersRef)
    /\ raised' = "none"
    /\ lastOp' = "toggleEq"
    /\ renderedIsPlaying' \in {renderedIsPlaying, isPlaying}
    /\ UNCHANGED <<isPlaying, mounted, loadPc, ctxState, audioContextRef, bufferRef,
                   connections, sources, sourceRef, inflight, unhandled>>

----------------------------------------------------------------------------
(* The audio thread: while the context is running, its clock advances and   *)
(* each gain AudioParam follows the setTargetAtTime automation scheduled on  *)
(* it. One step is one half-life of the 0.12 s time constant.                *)

AudioTick ==
    /\ ctxState = "running"
    /\ \E i \in DOMAIN filtersRef : ~Settled(filtersRef[i])
    /\ filtersRef' = [i \in DOMAIN filtersRef |->
                         [filtersRef[i] EXCEPT
                             !.gain = Approach(filtersRef[i].gain, filtersRef[i].target)]]
    /\ UNCHANGED renderedIsPlaying
    /\ UNCHANGED <<eqOn, isPlaying, mounted, loadPc, ctxState, audioContextRef,
                   bufferRef, connections, sources, sourceRef, inflight, raised,
                   unhandled, lastOp>>

----------------------------------------------------------------------------
(* togglePlay *)

\* The re-render that setIsPlaying(true) has queued. It is called after the
\* await, outside any event, so React renders it in a later task: the component
\* function runs again and the button gets a togglePlay that captured the new
\* isPlaying. Until then clicks reach the togglePlay of the previous render.
Render ==
    /\ mounted
    /\ renderedIsPlaying # isPlaying
    /\ renderedIsPlaying' = isPlaying
    /\ UNCHANGED <<eqOn, isPlaying, mounted, loadPc, ctxState, audioContextRef,
                   bufferRef, filtersRef, connections, sources, sourceRef, inflight,
                   raised, unhandled, lastOp>>

\* Variant of TogglePlay: stopping playback also sends the filters back to flat.
TogglePlay_ResetsCurve ==
    /\ mounted
    /\ IF ~TogglePlayProceeds(audioContextRef, bufferRef, filtersRef)
          THEN UNCHANGED <<isPlaying, renderedIsPlaying, sources, sourceRef,
                          inflight, filtersRef>>
          ELSE IF renderedIsPlaying
                  THEN /\ sources' = StopCurrent(sources, sourceRef)
                       /\ sourceRef' = NoSource
                       /\ isPlaying' = FALSE
                       /\ renderedIsPlaying' = FALSE
                       /\ inflight' = inflight
                       /\ filtersRef' = SetTargets(filtersRef, EffectGains(FALSE))
                  ELSE /\ Len(sources) + Len(inflight) < MaxSources
                       /\ inflight' = Append(inflight, [ctx |-> audioContextRef,
                                                        buffer |-> bufferRef])
                       /\ UNCHANGED <<isPlaying, renderedIsPlaying, sources, sourceRef, filtersRef>>
    /\ raised' = "none"
    /\ lastOp' = "togglePlay"
    /\ UNCHANGED <<eqOn, mounted, loadPc, ctxState, audioContextRef, bufferRef,
                   connections, unhandled>>

\* The click handler up to its return or its `await ctx.resume()`. It is the
\* closure of the last committed render, so the isPlaying it tests is that
\* render's. setIsPlaying(false) is called inside the click event, whose
\* updates React renders before the event ends.
TogglePlay ==
    /\ mounted
    /\ IF ~TogglePlayProceeds(audioContextRef, bufferRef, filtersRef)
          THEN UNCHANGED <<isPlaying, renderedIsPlaying, sources, sourceRef,
                          inflight>>
          ELSE IF renderedIsPlaying
                  THEN /\ sources' = StopCurrent(sources, sourceRef)
                       /\ sourceRef' = NoSource
                       /\ isPlaying' = FALSE
                       /\ renderedIsPlaying' = FALSE
                       /\ inflight' = inflight
                  ELSE /\ Len(sources) + Len(inflight) < MaxSources
                       /\ inflight' = Append(inflight, [ctx |-> audioContextRef,
                                                        buffer |-> bufferRef])
                       /\ UNCHANGED <<isPlaying, renderedIsPlaying, sources, sourceRef>>
    /\ raised' = "none"
    /\ lastOp' = "togglePlay"
    /\ UNCHANGED <<eqOn, mounted, loadPc, ctxState, audioContextRef, bufferRef,
                   filtersRef, connections, unhandled>>

\* Variant of ResumeOk: the node created by an earlier start is kept and started
\* again instead of a fresh one being created.
ResumeOk_ReusesNode ==
    /\ inflight # <<>>
    /\ inflight' = Tail(inflight)
    /\ ctxState' = IF ctxState = "closed" THEN "closed" ELSE "running"
    /\ IF sources = <<>>
          THEN /\ sources' = Append(sources, NewSource(Head(inflight).buffer))
               /\ connections' =
                      connections \cup {SourceConnection(Len(sources) + 1, filtersRef)}
          ELSE /\ sources' = [sources EXCEPT ![Len(sources)].starts = @ + 1,
                                             ![Len(sources)].stopped = FALSE]
               /\ connections' = connections
    /\ sourceRef' = Len(sources')
    /\ isPlaying' = TRUE
    /\ raised' = "none"
    /\ lastOp' = "resumeOk"
    /\ UNCHANGED renderedIsPlaying
    /\ UNCHANGED <<eqOn, mounted, loadPc, audioContextRef, bufferRef, filtersRef,
                   unhandled>>

\* `await ctx.resume()` resolves for the oldest suspended invocation and the rest
\* of togglePlay runs. source.connect(undefined) throws a TypeError, which ends
\* the invocation before source.start().
ResumeOk ==
    /\ inflight # <<>>
    /\ inflight' = Tail(inflight)
    /\ ctxState' = IF ctxState = "closed" THEN "closed" ELSE "running"
    /\ IF Len(filtersRef) = 0
          THEN /\ sources' = Append(sources, [NewSource(Head(inflight).buffer)
                                                 EXCEPT !.started = FALSE,
                                                        !.starts = 0])
               /\ raised' = "connectTypeError"
               /\ UNCHANGED <<connections, sourceRef, isPlaying>>
          ELSE /\ sources' = Append(sources, NewSource(Head(inflight).buffer))
               /\ connections' =
                      connections \cup {SourceConnection(Len(sources) + 1, filtersRef)}
               /\ sourceRef' = Len(sources) + 1
               /\ isPlaying' = TRUE
               /\ raised' = "none"
    /\ unhandled' = unhandled \cup ({raised'} \ {"none"})
    /\ lastOp' = "resumeOk"
    /\ UNCHANGED renderedIsPlaying
    /\ UNCHANGED <<eqOn, mounted, loadPc, audioContextRef, bufferRef, filtersRef>>

\* Variant of ResumeFail: the rejection is swallowed and the rest of togglePlay
\* runs all the same.
ResumeFail_StartsAnyway ==
    /\ inflight # <<>>
    /\ inflight' = Tail(inflight)
    /\ sources' = Append(sources, NewSource(Head(inflight).buffer))
    /\ connections' = connections \cup {SourceConnection(Len(sources) + 1, filtersRef)}
    /\ sourceRef' = Len(sources) + 1
    /\ isPlaying' = TRUE
    /\ raised' = "none"
    /\ lastOp' = "resumeFail"
    /\ UNCHANGED renderedIsPlaying
    /\ UNCHANGED <<eqOn, mounted, loadPc, ctxState, audioContextRef, bufferRef,
                   filtersRef, unhandled>>

\* `await ctx.resume()` rejects: togglePlay's promise rejects, nothing after the
\* await runs, and the onClick caller does not handle the rejection.
ResumeFail ==
    /\ inflight # <<>>
    /\ inflight' = Tail(inflight)
    /\ raised' = "resumeRejected"
    /\ unhandled' = unhandled \cup {raised'}
    /\ lastOp' = "resumeFail"
    /\ UNCHANGED renderedIsPlaying
    /\ UNCHANGED <<eqOn, isPlaying, mounted, loadPc, ctxState, audioContextRef,
                   bufferRef, filtersRef, connections, sources, sourceRef>>

----------------------------------------------------------------------------

Next ==
    \/ LoadFetchOk
    \/ LoadFetchFail
    \/ LoadArrayBufferOk
    \/ LoadDecodeOk
    \/ LoadDecodeFail
    \/ Teardown
    \/ ToggleEq
    \/ AudioTick
    \/ TogglePlay
    \/ Render
    \/ ResumeOk
    \/ ResumeFail

Spec == Init /\ [][Next]_vars

----------------------------------------------------------------------------
(* Properties *)

\* The sources on which start() has been called and stop() has not.
ActiveSources == {k \in DOMAIN sources : sources[k].started /\ ~sources[k].stopped}

\* loadAudio is suspended at one of its awaits.
LoadInFlight == loadPc \in {"fetch", "arrayBuffer", "decode"}

\* loadAudio has returned, one way or another.
LoadFinished == loadPc \in {"ready", "returned", "fetchFailed", "decodeFailed"}

\* C1: over every interleaving of togglePlay invocations, at most one source
\* that has been started and not stopped exists at any time.
C1_AtMostOneActiveSource == Cardinality(ActiveSources) <= 1

\* C2: whenever the filter chain exists and the cleanup has not run, each filter's
\* target gain is the value the chart plots at that frequency for eqOn.
C2_TargetsMatchChart ==
    (Len(filtersRef) # 0 /\ mounted) =>
        \A i \in DOMAIN filtersRef : filtersRef[i].target = EQGraphData(eqOn)[i]

\* C3: once the cleanup has run, no source is started and not stopped; a source
\* started after the cleanup is, in the state its start() leaves, such a source.
C3_NoActiveSourceAfterTeardown == ~mounted => ActiveSources = {}

\* C4: when isPlaying is false and no togglePlay invocation is suspended, no
\* source that was started remains unstopped.
C4_StoppedMeansSilent ==
    (~isPlaying /\ inflight = <<>>) => ActiveSources = {}

\* C5: a togglePlay invoked while loadAudio has not completed creates and starts
\* no source, suspends at no await, leaves isPlaying false and raises nothing.
C5_TogglePlayBeforeLoadIsNoOp ==
    [][(TogglePlay /\ LoadInFlight) =>
          /\ sources' = sources
          /\ sourceRef' = sourceRef
          /\ connections' = connections
          /\ inflight' = inflight
          /\ isPlaying' = FALSE
          /\ raised' = "none"
          /\ unhandled' = unhandled]_vars

\* C5 witness: togglePlay has just run with the sink created and the buffer not
\* yet decoded.
C5_Witness ==
    /\ lastOp = "togglePlay"
    /\ loadPc = "decode"
    /\ audioContextRef = CTX
    /\ bufferRef = NULL
    /\ sources = <<>>
    /\ inflight = <<>>

\* What "failed, with nothing built" means: no chain, no connection, no source,
\* no session, no suspended togglePlay, no buffer, isPlaying false.
NothingBuilt ==
    /\ filtersRef = <<>>
    /\ connections = {}
    /\ sources = <<>>
    /\ sourceRef = NoSource
    /\ inflight = <<>>
    /\ bufferRef = NULL
    /\ isPlaying = FALSE

\* C6: after decodeAudioData has rejected, loadAudio stays failed, no filter is
\* ever created or connected, and every togglePlay and EQ toggle leaves the
\* engine as it was and raises nothing.
C6_DecodeFailedIsTerminal ==
    [][loadPc = "decodeFailed" =>
          /\ NothingBuilt
          /\ loadPc' = "decodeFailed"
          /\ NothingBuilt'
          /\ (TogglePlay \/ ToggleEq) =>
                /\ UNCHANGED <<ctxState, audioContextRef, mounted>>
                /\ raised' = "none"
                /\ unhandled' = unhandled]_vars

\* C6 witness: with the decode failed and the Deaf EQ curve selected, togglePlay
\* has just run.
C6_Witness ==
    /\ loadPc = "decodeFailed"
    /\ lastOp = "togglePlay"
    /\ eqOn
    /\ NothingBuilt
    /\ raised = "none"

\* C7: once the cleanup has run and loadAudio has finished, the AudioContext
\* loadAudio created, if any, is closed.
C7_SinkClosedAfterTeardown ==
    (~mounted /\ LoadFinished) => ctxState \in {"none", "closed"}

\* C8: the cleanup lets no error escape, in whatever state it runs.
C8_TeardownNeverRaises == lastOp = "teardown" => raised = "none"

\* C9: a source is created only by the continuation of a resolved ctx.resume();
\* a rejected ctx.resume() creates and starts nothing and leaves isPlaying, the
\* refs and the chain as they were, so togglePlay can be retried; and every
\* resolved ctx.resume() starts a fresh source and sets isPlaying.
C9_StartOnlyAfterActivation ==
    [][/\ (sources' # sources /\ ~(TogglePlay \/ Teardown)) => ResumeOk
       /\ (TogglePlay \/ Teardown) => Len(sources') = Len(sources)
       /\ ResumeFail =>
             UNCHANGED <<sources, sourceRef, connections, isPlaying, ctxState,
                         audioContextRef, bufferRef, filtersRef>>
       /\ ResumeOk =>
             /\ Len(sources') = Len(sources) + 1
             /\ sources'[Len(sources')].started
             /\ ~sources'[Len(sources')].stopped
             /\ sourceRef' = Len(sources')
             /\ isPlaying']_vars

\* C9 witness: an activation has failed, and a later activation has just
\* succeeded and started the source that is now playing.
C9_Witness ==
    /\ "resumeRejected" \in unhandled
    /\ lastOp = "resumeOk"
    /\ mounted
    /\ isPlaying
    /\ sourceRef \in ActiveSources

\* C10: no chain exists before loadAudio succeeds; from then on the graph is
\* exactly six peaking filters with Q = 1 at 60, 150, 250, 1000, 4000 and
\* 15000 Hz, wired f0 -> f1 -> ... -> f5 -> destination, and every started
\* source is connected to f0 and to nothing else.
C10_ChainTopology ==
    IF loadPc = "ready"
       THEN /\ Len(filtersRef) = 6
            /\ \A i \in 1..6 :
                  /\ filtersRef[i].id = FilterNode(i)
                  /\ filtersRef[i].type = "peaking"
                  /\ filtersRef[i].Q = 1
                  /\ filtersRef[i].frequency = <<60, 150, 250, 1000, 4000, 15000>>[i]
            /\ {c \in connections : c[1][1] # "source"} =
                  {<<FilterNode(i), FilterNode(i + 1)>> : i \in 1..5}
                      \cup {<<FilterNode(6), Destination>>}
            /\ \A k \in DOMAIN sources :
                  sources[k].started =>
                     {c \in connections : c[1] = SourceNode(k)} =
                         {<<SourceNode(k), FilterNode(1)>>}
       ELSE filtersRef = <<>> /\ connections = {}

\* C10 witness: the chain is built and a second source has been started through it.
C10_Witness ==
    /\ loadPc = "ready"
    /\ Len(sources) >= 2
    /\ \A k \in DOMAIN sources : sources[k].started
    /\ lastOp = "resumeOk"

\* C11: every start of playback creates a fresh source node with loop = true;
\* no node is started more than once, and a node that has been stopped stays
\* stopped and is never started again.
C11_SourcesAreSingleUse ==
    [][/\ \A k \in DOMAIN sources :
             /\ k \in DOMAIN sources'
             /\ sources'[k].starts = sources[k].starts
             /\ sources'[k].started = sources[k].started
             /\ sources'[k].loop = sources[k].loop
             /\ sources[k].stopped => sources'[k].stopped
       /\ \A k \in DOMAIN sources' \ DOMAIN sources :
             /\ sources'[k].loop
             /\ sources'[k].starts = 1
             /\ ~sources'[k].stopped
       /\ ResumeOk =>
             /\ Len(sources') = Len(sources) + 1
             /\ sourceRef' = Len(sources')]_vars

\* C11 witness: the first node was stopped, and a later start has just created
\* and started a second node, which is the one playing.
C11_Witness ==
    /\ lastOp = "resumeOk"
    /\ Len(sources) = 2
    /\ sources[1].stopped /\ sources[1].starts = 1
    /\ sources[2].loop /\ sources[2].starts = 1 /\ ~sources[2].stopped
    /\ sourceRef = 2

\* The filter chain is constructed and the eqOn effect can reach it.
ChainConstructed == EqEffectProceeds(audioContextRef, filtersRef)

\* C12: from any state in which the chain is constructed, the eqOn effect run
\* with true and then with false leaves every filter with a target of 0 dB; and
\* whenever the EQ toggle has just switched the curve off, every target is 0 dB.
C12_OnThenOffIsFlat ==
    ChainConstructed =>
        /\ \A i \in DOMAIN filtersRef :
              EqEffect(FALSE, audioContextRef,
                       EqEffect(TRUE, audioContextRef, filtersRef))[i].target = 0
        /\ (lastOp = "toggleEq" /\ ~eqOn) =>
              \A i \in DOMAIN filtersRef : filtersRef[i].target = 0

\* C12 witness: the curve was switched on, the gains moved towards it, and the
\* toggle has just switched it off again: every target is 0 dB while the gains
\* are still away from 0.
C12_Witness ==
    /\ ChainConstructed
    /\ lastOp = "toggleEq"
    /\ ~eqOn
    /\ \A i \in DOMAIN filtersRef :
          filtersRef[i].target = 0 /\ filtersRef[i].gain # 0

\* The targets of a chain, in filter order.
Targets(filters) == [i \in DOMAIN filters |-> filters[i].target]

\* C13: from any state in which the chain is constructed, the eqOn effect run
\* twice in succession with the same value leaves the six targets as one run
\* leaves them, for true and for false.
C13_SameValueTwiceIsOnce ==
    ChainConstructed =>
        \A on \in BOOLEAN :
            Targets(EqEffect(on, audioContextRef,
                             EqEffect(on, audioContextRef, filtersRef)))
                = Targets(EqEffect(on, audioContextRef, filtersRef))

\* C13 witness: with the chain constructed, the toggle has just switched the
\* curve on and the targets are the bass-heavy gains.
C13_Witness ==
    /\ ChainConstructed
    /\ lastOp = "toggleEq"
    /\ eqOn
    /\ Targets(filtersRef) = <<12, 10, 4, -6, -8, -12>>

\* C14: togglePlay, whether it returns from its guard, stops playback, suspends
\* at the await, or resumes from it to start playback or to fail, leaves eqOn
\* and every filter (its target included) as they were.
C14_TogglePlayKeepsCurve ==
    [][(TogglePlay \/ ResumeOk \/ ResumeFail) =>
          /\ eqOn' = eqOn
          /\ Targets(filtersRef') = Targets(filtersRef)
          /\ filtersRef' = filtersRef]_vars

\* C14 witness: with the Deaf EQ curve on and its targets set, playback was
\* started and togglePlay has just stopped it.
C14_Witness ==
    /\ lastOp = "togglePlay"
    /\ eqOn
    /\ Targets(filtersRef) = <<12, 10, 4, -6, -8, -12>>
    /\ ~isPlaying
    /\ \E k \in DOMAIN sources : sources[k].stopped

\* C15: an EQ toggle taken once loadAudio has succeeded (playing or not) changes
\* nothing but the filters' gain targets: isPlaying, sourceRef, the sources, the
\* buffer, the context, the connections and each filter's node, type, frequency,
\* Q and actual gain are as before.
C15_ToggleEqOnlyRetargets ==
    [][(ToggleEq /\ loadPc = "ready") =>
          /\ UNCHANGED <<isPlaying, sourceRef, sources, bufferRef, audioContextRef,
                         ctxState, connections, inflight, loadPc>>
          /\ DOMAIN filtersRef' = DOMAIN filtersRef
          /\ \A i \in DOMAIN filtersRef :
                [filtersRef'[i] EXCEPT !.target = filtersRef[i].target]
                    = filtersRef[i]]_vars

\* C15 witness: while a source is playing, the toggle has just switched the
\* curve on and the targets have changed.
C15_Witness ==
    /\ lastOp = "toggleEq"
    /\ loadPc = "ready"
    /\ isPlaying
    /\ sourceRef \in ActiveSources
    /\ eqOn
    /\ Targets(filtersRef) = <<12, 10, 4, -6, -8, -12>>

\* x lies between a and b, ends included.
Between(a, x, b) == (a <= x /\ x <= b) \/ (b <= x /\ x <= a)

\* C16: an EQ toggle never changes a filter's actual gain in the step it is
\* taken; the target changes only at an EQ toggle; and in every rendering step
\* each actual gain stays between its previous value and the target in force,
\* so between two toggles it moves monotonically towards the target and never
\* passes it. No other step changes an actual gain.
C16_GainApproachesMonotonically ==
    [][Len(filtersRef) # 0 =>
          /\ DOMAIN filtersRef' = DOMAIN filtersRef
          /\ IF ToggleEq
                THEN \A i \in DOMAIN filtersRef :
                        filtersRef'[i].gain = filtersRef[i].gain
                ELSE Targets(filtersRef') = Targets(filtersRef)
          /\ IF AudioTick
                THEN \A i \in DOMAIN filtersRef :
                        Between(filtersRef[i].gain, filtersRef'[i].gain,
                                filtersRef[i].target * GainScale)
                ELSE \A i \in DOMAIN filtersRef :
                        filtersRef'[i].gain = filtersRef[i].gain]_vars

\* C16 witness: the curve was switched on, the gains went half of the way, the
\* curve was switched off, and the gains have come half of the way back: the
\* first filter is at 3 dB and the last at -3 dB, heading to 0.
C16_Witness ==
    /\ Len(filtersRef) = 6
    /\ ~eqOn
    /\ filtersRef[1].target = 0 /\ filtersRef[1].gain = 3 * GainScale
    /\ filtersRef[6].target = 0 /\ filtersRef[6].gain = -3 * GainScale

\* C17: for enabled true the curve is [12, 10, 4, -6, -8, -12] and for enabled
\* false it is all zeros, in the chart's series and in the eqOn effect's gains
\* alike; both have one value per filter frequency, in the order 60, 150, 250,
\* 1000, 4000, 15000 Hz; and the targets an EQ toggle leaves in the filters
\* are the series the chart is given for the same eqOn.
C17_ChartAndFiltersShareCurve ==
    /\ \A on \in BOOLEAN :
          /\ EQGraphData(on) =
                (IF on THEN <<12, 10, 4, -6, -8, -12>> ELSE <<0, 0, 0, 0, 0, 0>>)
          /\ EffectGains(on) = EQGraphData(on)
    /\ Len(labels) = 6
    /\ freqs = <<60, 150, 250, 1000, 4000, 15000>>
    /\ (ChainConstructed /\ lastOp = "toggleEq") =>
          /\ Targets(filtersRef) = EQGraphData(eqOn)
          /\ \A i \in DOMAIN filtersRef : filtersRef[i].frequency = freqs[i]

\* C17 witness: with the chain constructed the toggle has just selected the
\* Deaf EQ curve, and the six targets are the series the chart shows.
C17_Witness ==
    /\ ChainConstructed
    /\ lastOp = "toggleEq"
    /\ eqOn
    /\ Targets(filtersRef) = EQGraphData(TRUE)
    /\ Targets(filtersRef) # EQGraphData(FALSE)

\* C18: once the cleanup has run with loadAudio not yet succeeded, loadAudio
\* never publishes: bufferRef stays null, filtersRef stays empty, and loadAudio
\* never reaches its end with the chain built.
C18_NoPublishAfterTeardown ==
    [][(~mounted /\ loadPc # "ready") =>
          /\ bufferRef = NULL /\ filtersRef = <<>>
          /\ loadPc' # "ready"
          /\ bufferRef' = NULL /\ filtersRef' = <<>>]_vars

\* C18 witness: the cleanup ran during the decode, the decode has just resolved,
\* and loadAudio returned with nothing published.
C18_Witness ==
    /\ ~mounted
    /\ lastOp = "loadDecodeOk"
    /\ loadPc = "returned"
    /\ audioContextRef = CTX
    /\ bufferRef = NULL
    /\ filtersRef = <<>>

\* C19: before the cleanup has run and with no togglePlay invocation suspended,
\* isPlaying is true exactly when sourceRef holds a node, and that node has been
\* started and not stopped.
C19_IsPlayingMatchesSourceRef ==
    (mounted /\ inflight = <<>>) =>
        /\ isPlaying <=> (sourceRef # NoSource)
        /\ sourceRef # NoSource => sourceRef \in ActiveSources

\* C19 witness: two overlapping invocations have both started a source, nothing
\* is suspended any more, and sourceRef holds the second, which is playing.
C19_Witness ==
    /\ mounted
    /\ inflight = <<>>
    /\ isPlaying
    /\ sourceRef = 2
    /\ ActiveSources = {1, 2}

====
